---- MODULE Spec2Model ----
(***************************************************************************)
(* Status monitoring and failover resolution of the network topology tool. *)
(*                                                                         *)
(* Two monitor implementations live in the repository:                     *)
(*   - the Electron main process scheduler (ipcMain handlers monitor:start *)
(*     and monitor:stop with the runMonitoring closure), whose snapshots   *)
(*     are consumed by the renderer's monitor:status listener;             *)
(*   - the scripted polling loop monitor.ps1.                              *)
(* Each part has its own specification over its own group of variables;    *)
(* the variables of the other parts stay at their idle values.             *)
(***************************************************************************)
EXTENDS Integers, Sequences, FiniteSets, TLC

VARIABLES
    \* ---- Electron main process: monitoring scheduler ----
    monitoringInterval, \* handle kept by the handlers: 0 is null, else a timer id
    monitoringConfig,   \* 0 is null, else the index of the host list in force
    armed,              \* timer ids the event loop will still fire
    starts,             \* per monitor:start call: "await" | "success" | "error"
    ticks,              \* runMonitoring invocations in flight, by slot
    sent,               \* the last message sent on channel monitor:status
    nTicks,             \* number of runMonitoring invocations begun so far
    stopRet,            \* what the last monitor:stop call returned
    lastCall,           \* the last IPC call the main process has processed
    mainWindow,         \* "open" | "closed" (mainWindow is null) | "quit"
    unhandled,          \* timer ticks whose promise was rejected
    \* ---- monitor.ps1: the scripted polling loop ----
    psPc,               \* "off" | "load" | "check" | "process" | "sleep"
    psNow,              \* Get-Date, in milliseconds
    psNodes,            \* $nodes of the iteration
    psIdx,              \* position of the "Perform checks" loop in $nodes
    statuses,           \* $statuses: id -> status of this iteration
    psIo,               \* the checks issued in this iteration:
                        \* <<id, kind, answer, whether the socket was closed>>
    stateStore,         \* $stateStore: id -> [Status, ChangeTime]
    statusJs,           \* what status.js holds
    \* ---- renderer: the monitor:status listener ----
    config,             \* config.nodes: the index of its host list
    networkData,        \* the nodes handed to renderTree and renderHostList
    uptimeTrackers,     \* id -> [status, since]
    statusHistory,      \* id -> [lastStatus, lastChange, history]
    lastUpdated,        \* number of snapshots the listener has handled
    dateNow,            \* Date.now() of the renderer, in milliseconds
    \* ---- channel monitor:status from the main process to the renderer ----
    channel,            \* the messages sent and not yet handled, oldest first
    applied,            \* the tick (by order of beginning) handled last
    \* ---- renderer: the undo / redo system ----
    undoStack,          \* undoStack: the saved states, oldest first
    redoStack,          \* redoStack
    document,           \* config.nodes and config.connections
    isDragging,         \* a node drag is in progress
    preEdit,            \* the document as it was when the last edit began
    undoLog,            \* the number of operations so far and the last one
    \* ---- main process: SSH ----
    sshConnections,     \* sshConnections: node id -> the connection of the entry
    sshConns,           \* every Client created so far: its shell and its socket
    sshLast,            \* the connection whose shell was opened last, 0 if none
    sshReply,           \* the last reply of ssh:write / ssh:resize / ssh:disconnect
    \* ---- main process: network:scan ----
    scanPc,             \* "idle", "batch" / "rest" (awaiting), "returned", "rejected"
    scanI,              \* the next address the loop will ping
    scanRange,          \* startRange, endRange and the addresses that answer
    scanOnline,         \* outstanding pings that will succeed
    scanOffline,        \* the number of outstanding pings that will fail
    scanResults,        \* results
    scanProgress,       \* network:scanProgress messages sent
    \* ---- pure functions under test ----
    fnIn,               \* the arguments drawn
    fnOut               \* the results computed from them

mainVars == <<monitoringInterval, monitoringConfig, armed, starts, ticks,
              sent, nTicks, stopRet, lastCall, mainWindow, unhandled>>

psVars == <<psPc, psNow, psNodes, psIdx, statuses, psIo, stateStore, statusJs>>

rendVars == <<config, networkData, uptimeTrackers, statusHistory, lastUpdated, dateNow>>

chanVars == <<channel, applied>>

undoVars == <<undoStack, redoStack, document, isDragging, preEdit, undoLog>>

sshVars == <<sshConnections, sshConns, sshLast, sshReply>>

scanVars == <<scanPc, scanI, scanRange, scanOnline, scanOffline, scanResults,
              scanProgress>>

auxVars == <<undoVars, sshVars, scanVars>>

fnVars == <<fnIn, fnOut>>

vars == <<mainVars, psVars, rendVars, chanVars, fnVars, auxVars>>

(***************************************************************************)
(* Bounds of the model.                                                    *)
(***************************************************************************)
MaxStarts == 2      \* monitor:start calls in one behaviour
MaxInFlight == 2    \* runMonitoring invocations in flight at once
MaxTicks == 2       \* runMonitoring invocations in one behaviour
MaxPsIter == 3      \* iterations of the monitor.ps1 loop in one behaviour
MaxMsgs == 3        \* snapshots the renderer's listener handles in one behaviour
MaxClock == 2       \* seconds the renderer's clock advances in one behaviour
MaxDays == 1        \* whole days in the durations handed to the formatters
MaxObservations == 3 \* observations handed to trackStatusChange in one behaviour
MaxEdits == 4       \* editor operations (mouse, edit, undo, redo) in one behaviour
MaxConns == 2       \* ssh:connect calls for the node in one behaviour
MaxEnd == 41        \* the largest endRange of a network scan

(***************************************************************************)
(* Hosts.  A null reference or an absent port is Null / 0.                 *)
(***************************************************************************)
Null == "<null>"

NodeA == [id |-> "A", address |-> "10.0.0.1", port |-> 0,
          primaryParentId |-> Null, secondaryParentId |-> Null]
NodeB == [id |-> "B", address |-> "10.0.0.2", port |-> 80,
          primaryParentId |-> "A", secondaryParentId |-> Null]
NodeC == [id |-> "C", address |-> "10.0.0.3", port |-> 0,
          primaryParentId |-> "A", secondaryParentId |-> "B"]
\* Host C as saved with its address field left empty.
NodeCNoAddress == [NodeC EXCEPT !.address = ""]

\* The host lists a configuration can hold: all three hosts, or B removed and
\* the address of C cleared.
HostLists == << <<NodeA, NodeB, NodeC>>, <<NodeA, NodeCNoAddress>> >>

Ids(nodes) == {nodes[i].id : i \in 1..Len(nodes)}

(***************************************************************************)
(* Probe of the Electron scheduler (runMonitoring, per node).              *)
(***************************************************************************)
\* A probe that pings every node, whatever its port.
ProbeIoPingOnly(node) == "ping"

\* The I/O the probe issues for a node: a socket when a port is configured,
\* a ping child process otherwise.  The address is not looked at.
ProbeIo(node) == IF node.port # 0 THEN "tcp" ELSE "ping"

\* A TCP check without a timeout against a peer that never answers: no event.
ProbeEventsSilentPeer(node) ==
    IF ProbeIo(node) = "tcp" THEN {}
    ELSE IF node.address = "" THEN {"error"}
    ELSE {"ok", "error"}

\* The events the network can answer a probe with.  A ping without a
\* destination exits with an error.
ProbeEvents(node) ==
    IF ProbeIo(node) = "tcp" THEN {"connect", "error", "timeout"}
    ELSE IF node.address = "" THEN {"error"}
    ELSE {"ok", "error"}

\* A probe whose error handler rejects instead of resolving false.
ProbeSettleRejects(io, ev) ==
    IF ev \in {"connect", "ok"} THEN "up"
    ELSE IF ev = "error" THEN "raise"
    ELSE "down"

\* What the probe's promise settles with on an event: "up" (resolve(true)),
\* "down" (resolve(false)) or "raise" (a rejection).
ProbeSettle(io, ev) ==
    IF io = "tcp"
    THEN (IF ev = "connect" THEN "up" ELSE "down")
    ELSE (IF ev = "ok" THEN "up" ELSE "down")

\* A config object that has no nodes array, as a value of monitoringConfig.
NoNodes == Len(HostLists) + 1

\* The socket of a probe once an event of it has been handled: each of the
\* three handlers of the TCP check calls socket.destroy(); a ping has none.
SocketAfter(io, ev) == IF io = "tcp" THEN "destroyed" ELSE "none"

NoTick == [nodes |-> 0, owner |-> 0, begun |-> 0, probes |-> <<>>]

\* runMonitoring up to its await: every probe of the list is issued.  The
\* invocation is the n-th one begun, on behalf of start call owner (0 for a
\* firing of the interval timer).
NewTick(cfg, owner, n) ==
    [nodes |-> cfg, owner |-> owner, begun |-> n,
     probes |-> [i \in 1..Len(HostLists[cfg]) |->
                    [io |-> ProbeIo(HostLists[cfg][i]), ev |-> "none",
                     res |-> "pending",
                     sock |-> IF ProbeIo(HostLists[cfg][i]) = "tcp" THEN "open"
                              ELSE "none"]]]

FreeSlots == {s \in 1..MaxInFlight : ticks[s] = NoTick}
LowestFree == CHOOSE s \in FreeSlots : \A r \in FreeSlots : s <= r

\* statusResults: every node of the tick with its status.
StatusResults(t) ==
    [i \in 1..Len(t.probes) |->
        [id |-> HostLists[t.nodes][i].id,
         address |-> HostLists[t.nodes][i].address,
         port |-> HostLists[t.nodes][i].port,
         primaryParentId |-> HostLists[t.nodes][i].primaryParentId,
         secondaryParentId |-> HostLists[t.nodes][i].secondaryParentId,
         status |-> (t.probes[i].res = "up")]]

(***************************************************************************)
(* Initial state of the main process.                                      *)
(***************************************************************************)
InitMain ==
    /\ monitoringInterval = 0
    /\ monitoringConfig = 0
    /\ armed = {}
    /\ starts = <<>>
    /\ ticks = [s \in 1..MaxInFlight |-> NoTick]
    /\ sent = [seq |-> 0, tick |-> 0, nodes |-> <<>>]
    /\ nTicks = 0
    /\ stopRet = "none"
    /\ lastCall = "none"
    /\ mainWindow = "open"
    /\ unhandled = 0

\* A monitor:start that arms the interval and returns without a first tick.
StartCallDelayed(cfg) ==
    /\ Len(starts) < MaxStarts
    /\ monitoringConfig' = cfg
    /\ armed' = (armed \ {monitoringInterval}) \cup {Len(starts) + 1}
    /\ monitoringInterval' = Len(starts) + 1
    /\ starts' = Append(starts, "success")
    /\ lastCall' = "start"
    /\ UNCHANGED <<ticks, sent, nTicks, stopRet, mainWindow, unhandled>>

(***************************************************************************)
(* monitor:start, up to the await of the immediate first tick.             *)
(***************************************************************************)
StartCall(cfg) ==
    /\ Len(starts) < MaxStarts
    /\ nTicks < MaxTicks
    /\ FreeSlots # {}
    /\ monitoringConfig' = cfg
    /\ armed' = armed \ {monitoringInterval}
    /\ starts' = Append(starts, "await")
    /\ ticks' = [ticks EXCEPT ![LowestFree] = NewTick(cfg, Len(starts) + 1, nTicks + 1)]
    /\ nTicks' = nTicks + 1
    /\ lastCall' = "start"
    /\ UNCHANGED <<monitoringInterval, sent, stopRet, mainWindow, unhandled>>

(***************************************************************************)
(* monitor:start with a config that is null (cfg = 0) or has no nodes       *)
(* array (cfg = NoNodes).  runMonitoring returns at its first line, so the  *)
(* await completes in the same turn; then config.interval is read: a        *)
(* TypeError for null, otherwise the interval is armed and the call returns *)
(* success.                                                                *)
(***************************************************************************)
StartMalformed(cfg) ==
    /\ cfg \in {0, NoNodes}
    /\ Len(starts) < MaxStarts
    /\ monitoringConfig' = cfg
    /\ IF cfg = 0
       THEN /\ armed' = armed \ {monitoringInterval}
            /\ starts' = Append(starts, "error")
            /\ UNCHANGED monitoringInterval
       ELSE /\ armed' = (armed \ {monitoringInterval}) \cup {Len(starts) + 1}
            /\ starts' = Append(starts, "success")
            /\ monitoringInterval' = Len(starts) + 1
    /\ lastCall' = "start"
    /\ UNCHANGED <<ticks, sent, nTicks, stopRet, mainWindow, unhandled>>

(***************************************************************************)
(* An armed interval timer fires: runMonitoring up to its await.           *)
(***************************************************************************)
TimerFire(tm) ==
    /\ tm \in armed
    /\ monitoringConfig \in 1..Len(HostLists)
    /\ nTicks < MaxTicks
    /\ FreeSlots # {}
    /\ ticks' = [ticks EXCEPT ![LowestFree] = NewTick(monitoringConfig, 0, nTicks + 1)]
    /\ nTicks' = nTicks + 1
    /\ UNCHANGED <<monitoringInterval, monitoringConfig, armed, starts, sent,
                   stopRet, lastCall, mainWindow, unhandled>>

\* A join that completes with the first probe that settles.
AnySettled(t) == \E j \in 1..Len(t.probes) : t.probes[j].res # "pending"

\* Promise.all of a tick: resolved when every probe has settled.
AllSettled(t) == \A j \in 1..Len(t.probes) : t.probes[j].res # "pending"

(***************************************************************************)
(* A probe's event arrives.  When it settles the last probe of its tick,   *)
(* the continuations run in the same turn of the event loop: Promise.all   *)
(* resolves, the snapshot is sent, and for the first tick of a start call  *)
(* the handler arms the interval and returns success.  A rejected probe    *)
(* rejects Promise.all at once: nothing is sent and a start call that      *)
(* awaits the tick fails without arming a timer.  When mainWindow is null  *)
(* the send is a TypeError: the tick's promise is rejected, which fails    *)
(* the start call awaiting it and is unhandled for a timer tick.           *)
(***************************************************************************)
ProbeEvent(s, i, ev) ==
    LET t == ticks[s]
        r == ProbeSettle(t.probes[i].io, ev)
        t2 == [t EXCEPT !.probes[i].res = r, !.probes[i].ev = ev,
                        !.probes[i].sock = SocketAfter(t.probes[i].io, ev)]
    IN  /\ t # NoTick
        /\ i \in 1..Len(t.probes)
        /\ t.probes[i].res = "pending"
        /\ ev \in ProbeEvents(HostLists[t.nodes][i])
        /\ IF r = "raise" \/ (AllSettled(t2) /\ mainWindow # "open")
           THEN /\ ticks' = [ticks EXCEPT ![s] = NoTick]
                /\ starts' = IF t.owner # 0
                             THEN [starts EXCEPT ![t.owner] = "error"]
                             ELSE starts
                /\ unhandled' = IF t.owner # 0 THEN unhandled ELSE unhandled + 1
                /\ UNCHANGED <<monitoringInterval, armed, sent>>
           ELSE IF AllSettled(t2)
           THEN /\ ticks' = [ticks EXCEPT ![s] = NoTick]
                /\ sent' = [seq |-> sent.seq + 1, tick |-> t.begun,
                            nodes |-> StatusResults(t2)]
                /\ IF t.owner # 0
                   THEN /\ monitoringInterval' = t.owner
                        /\ armed' = armed \cup {t.owner}
                        /\ starts' = [starts EXCEPT ![t.owner] = "success"]
                   ELSE UNCHANGED <<monitoringInterval, armed, starts>>
                /\ UNCHANGED unhandled
           ELSE /\ ticks' = [ticks EXCEPT ![s] = t2]
                /\ UNCHANGED <<monitoringInterval, armed, starts, sent, unhandled>>
        /\ UNCHANGED <<monitoringConfig, nTicks, stopRet, lastCall, mainWindow>>

(***************************************************************************)
(* monitor:stop.                                                           *)
(***************************************************************************)
StopCall ==
    /\ armed' = armed \ {monitoringInterval}
    /\ monitoringInterval' = 0
    /\ stopRet' = "success"
    /\ lastCall' = "stop"
    /\ UNCHANGED <<monitoringConfig, starts, ticks, sent, nTicks, mainWindow, unhandled>>

(***************************************************************************)
(* The main window is closed: mainWindow = null.  On darwin the process     *)
(* stays alive with its timers; elsewhere window-all-closed quits the app.  *)
(***************************************************************************)
WindowClosed(platform) ==
    /\ mainWindow = "open"
    /\ IF platform = "darwin"
       THEN /\ mainWindow' = "closed"
            /\ UNCHANGED <<armed, ticks>>
       ELSE /\ mainWindow' = "quit"
            /\ armed' = {}
            /\ ticks' = [s \in 1..MaxInFlight |-> NoTick]
    /\ UNCHANGED <<monitoringInterval, monitoringConfig, starts, sent, nTicks,
                   stopRet, lastCall, unhandled>>

\* app 'activate' with no window left: createWindow() gives a new mainWindow.
Activate ==
    /\ mainWindow = "closed"
    /\ mainWindow' = "open"
    /\ UNCHANGED <<monitoringInterval, monitoringConfig, armed, starts, ticks, sent,
                   nTicks, stopRet, lastCall, unhandled>>

(***************************************************************************)
(* monitor.ps1: configuration constants.                                   *)
(***************************************************************************)
scanIntervalMs == 1000

(***************************************************************************)
(* Duration formatting.  A TimeSpan is its length in milliseconds.         *)
(***************************************************************************)
\* Get-DurationString of monitor.ps1.
GetDurationString(span) ==
    LET Days == span \div 86400000
        Hours == (span \div 3600000) % 24
        Minutes == (span \div 60000) % 60
        Seconds == (span \div 1000) % 60
    IN  IF span >= 86400000
        THEN ToString(Days) \o "d " \o ToString(Hours) \o "h " \o ToString(Minutes) \o "m"
        ELSE IF span >= 3600000
        THEN ToString(Hours) \o "h " \o ToString(Minutes) \o "m"
        ELSE IF span >= 60000
        THEN ToString(Minutes) \o "m " \o ToString(Seconds) \o "s"
        ELSE ToString(Seconds) \o "s"

\* formatDuration of the renderer.
formatDuration(ms) ==
    LET seconds == ms \div 1000
        minutes == seconds \div 60
        hours == minutes \div 60
        days == hours \div 24
    IN  IF seconds < 60 THEN ToString(seconds) \o "s"
        ELSE IF minutes < 60
        THEN ToString(minutes) \o "m " \o ToString(seconds % 60) \o "s"
        ELSE IF hours < 24
        THEN ToString(hours) \o "h " \o ToString(minutes % 60) \o "m"
        ELSE ToString(days) \o "d " \o ToString(hours % 24) \o "h"

(***************************************************************************)
(* monitor.ps1: probes.  Each returns what the caller gets (ret), the I/O  *)
(* it attempted (io) and whether a socket it opened was closed (closed).   *)
(***************************************************************************)
IsNullOrWhiteSpace(str) == str = "" \/ str = Null

\* Test-PingFast: ev is the answer of Ping.Send ("Success", another reply
\* status, or an exception such as a DNS failure).
TestPingFast(Address, ev) ==
    IF IsNullOrWhiteSpace(Address)
    THEN [ret |-> FALSE, io |-> "none", closed |-> TRUE]
    ELSE [ret |-> (ev = "Success"), io |-> "ping", closed |-> TRUE]

\* Test-PortFast: ev is "connected", "waitTimeout" (WaitOne expired) or
\* "refused" (the connect completed with an error: EndConnect throws).
TestPortFast(Address, Port, ev) ==
    IF IsNullOrWhiteSpace(Address) \/ Port = 0
    THEN [ret |-> FALSE, io |-> "none", closed |-> TRUE]
    ELSE IF ev = "waitTimeout" THEN [ret |-> FALSE, io |-> "tcp", closed |-> TRUE]
    ELSE IF ev = "connected" THEN [ret |-> TRUE, io |-> "tcp", closed |-> TRUE]
    ELSE [ret |-> FALSE, io |-> "tcp", closed |-> FALSE]

PsEvents(entry) ==
    IF entry.port # 0 THEN {"connected", "waitTimeout", "refused"}
    ELSE {"Success", "TimedOut", "exception"}

\* "Perform checks" for one entry: the status recorded and the I/O issued.
PsCheckEntry(entry, ev) ==
    IF IsNullOrWhiteSpace(entry.address)
    THEN [ret |-> FALSE, io |-> "none", closed |-> TRUE]
    ELSE IF entry.port # 0 THEN TestPortFast(entry.address, entry.port, ev)
    ELSE TestPingFast(entry.address, ev)

(***************************************************************************)
(* monitor.ps1: State / Uptime logic and Failover logic of one entry.      *)
(***************************************************************************)
\* An empty map, and a map with one more key.
EmptyMap == [k \in {} |-> 0]
MapSet(m, k, v) == [x \in DOMAIN m \cup {k} |-> IF x = k THEN v ELSE m[x]]

PsStateUpdate(store, id, isUp, now) ==
    IF id \notin DOMAIN store
    THEN MapSet(store, id, [Status |-> isUp, ChangeTime |-> now])
    ELSE IF store[id].Status # isUp
    THEN MapSet(store, id, [Status |-> isUp, ChangeTime |-> now])
    ELSE store

\* A resolver that gives no parent when neither parent is up.
ResolveNoFallback(entry, st) ==
    LET primaryUp == entry.primaryParentId # Null /\ entry.primaryParentId \in DOMAIN st
                     /\ st[entry.primaryParentId]
        secondaryUp == entry.secondaryParentId # Null /\ entry.secondaryParentId \in DOMAIN st
                       /\ st[entry.secondaryParentId]
    IN  IF primaryUp THEN entry.primaryParentId
        ELSE IF secondaryUp THEN entry.secondaryParentId
        ELSE Null

\* A resolver that fails on a parent id that is not a key of the map.
ResolveDanglingRaises(entry, st) ==
    LET primaryId == entry.primaryParentId
        secondaryId == entry.secondaryParentId
    IN  IF \/ (primaryId # Null /\ primaryId \notin DOMAIN st)
           \/ (secondaryId # Null /\ secondaryId \notin DOMAIN st)
        THEN "<error>"
        ELSE IF primaryId # Null /\ st[primaryId] THEN primaryId
        ELSE IF secondaryId # Null /\ st[secondaryId] THEN secondaryId
        ELSE primaryId

ResolveActiveParent(entry, st) ==
    LET primaryId == entry.primaryParentId
        secondaryId == entry.secondaryParentId
        primaryUp == IF primaryId # Null /\ primaryId \in DOMAIN st
                     THEN st[primaryId] ELSE FALSE
        secondaryUp == IF secondaryId # Null /\ secondaryId \in DOMAIN st
                       THEN st[secondaryId] ELSE FALSE
    IN  IF primaryUp THEN primaryId
        ELSE IF secondaryUp THEN secondaryId
        ELSE primaryId

\* A result record resolved before the other entries have been checked: the
\* map holds the entry's own status only.
PsResultOwnStatusOnly(entry, store, st, now) ==
    [id |-> entry.id,
     address |-> entry.address,
     port |-> entry.port,
     status |-> st[entry.id],
     primaryParentId |-> entry.primaryParentId,
     secondaryParentId |-> entry.secondaryParentId,
     activeParentId |-> ResolveActiveParent(entry, [x \in {entry.id} |-> st[x]]),
     uptime |-> GetDurationString(now - store[entry.id].ChangeTime)]

\* One pass of the "Process logic" loop body: the entry's result record.
PsResult(entry, store, st, now) ==
    [id |-> entry.id,
     address |-> entry.address,
     port |-> entry.port,
     status |-> st[entry.id],
     primaryParentId |-> entry.primaryParentId,
     secondaryParentId |-> entry.secondaryParentId,
     activeParentId |-> ResolveActiveParent(entry, st),
     uptime |-> GetDurationString(now - store[entry.id].ChangeTime)]

\* The "Process logic" loop from entry i on: the store and $finalResults.
RECURSIVE PsProcessFrom(_, _, _, _, _, _)
PsProcessFrom(i, nodes, store, st, now, results) ==
    IF i > Len(nodes) THEN [store |-> store, results |-> results]
    ELSE LET store2 == PsStateUpdate(store, nodes[i].id, st[nodes[i].id], now)
         IN  PsProcessFrom(i + 1, nodes, store2, st, now,
                           Append(results, PsResult(nodes[i], store2, st, now)))

(***************************************************************************)
(* monitor.ps1: the main loop.                                             *)
(***************************************************************************)
PsIdle ==
    /\ psPc = "off"
    /\ psNow = 0
    /\ psNodes = <<>>
    /\ psIdx = 0
    /\ statuses = EmptyMap
    /\ psIo = <<>>
    /\ stateStore = EmptyMap
    /\ statusJs = [written |-> 0, nodes |-> <<>>]

InitPs ==
    /\ psPc = "load"
    /\ psNow = 0
    /\ psNodes = <<>>
    /\ psIdx = 0
    /\ statuses = EmptyMap
    /\ psIo = <<>>
    /\ stateStore = EmptyMap
    /\ statusJs = [written |-> 0, nodes |-> <<>>]

\* A failed load that writes an empty status.js before the next iteration.
PsLoadFailsRewrites ==
    /\ psPc = "load"
    /\ psNow < MaxPsIter * scanIntervalMs
    /\ psNow' = psNow + 1000
    /\ statusJs' = [written |-> statusJs.written + 1, nodes |-> <<>>]
    /\ UNCHANGED <<psPc, psNodes, psIdx, statuses, psIo, stateStore>>

\* config.json is missing or is not JSON: an error line, a second of sleep
\* and the next iteration.
PsLoadFails ==
    /\ psPc = "load"
    /\ psNow < MaxPsIter * scanIntervalMs
    /\ psNow' = psNow + 1000
    /\ UNCHANGED <<psPc, psNodes, psIdx, statuses, psIo, stateStore, statusJs>>

\* config.json holds host list cfg: $nodes is normalized, $statuses is reset.
PsLoadConfig(cfg) ==
    /\ psPc = "load"
    /\ psNow < MaxPsIter * scanIntervalMs
    /\ psNodes' = HostLists[cfg]
    /\ statuses' = EmptyMap
    /\ psIo' = <<>>
    /\ psIdx' = 1
    /\ psPc' = "check"
    /\ UNCHANGED <<psNow, stateStore, statusJs>>

\* "Perform checks": the check of the next entry, a blocking call.
PsCheck(ev) ==
    LET entry == psNodes[psIdx]
        r == PsCheckEntry(entry, ev)
    IN  /\ psPc = "check"
        /\ psIdx <= Len(psNodes)
        /\ ev \in PsEvents(entry)
        /\ statuses' = MapSet(statuses, entry.id, r.ret)
        /\ psIo' = IF r.io = "none" THEN psIo
                   ELSE Append(psIo, <<entry.id, r.io, ev, r.closed>>)
        /\ psIdx' = psIdx + 1
        /\ psPc' = IF psIdx = Len(psNodes) THEN "process" ELSE "check"
        /\ UNCHANGED <<psNow, psNodes, stateStore, statusJs>>

\* "Process logic" and the output: status.js is rewritten.
PsProcess ==
    LET out == PsProcessFrom(1, psNodes, stateStore, statuses, psNow, <<>>)
    IN  /\ psPc = "process"
        /\ stateStore' = out.store
        /\ statusJs' = [written |-> statusJs.written + 1, nodes |-> out.results]
        /\ psPc' = "sleep"
        /\ UNCHANGED <<psNow, psNodes, psIdx, statuses, psIo>>

\* Start-Sleep for the scan interval.
PsSleep ==
    /\ psPc = "sleep"
    /\ psNow' = psNow + scanIntervalMs
    /\ psPc' = "load"
    /\ UNCHANGED <<psNodes, psIdx, statuses, psIo, stateStore, statusJs>>

(***************************************************************************)
(* Renderer: the monitor:status listener (setupMonitoringListener).        *)
(***************************************************************************)
MAX_HISTORY_ENTRIES == 50

\* Date.now() when the renderer starts: some positive instant.
StartOfClock == 5000

\* A field of an object, Null when the object has no such field.
Field(obj, name) == IF name \in DOMAIN obj THEN obj[name] ELSE Null

\* config.nodes.find(n => n.id === id): the position, 0 when there is none.
FindNode(nodes, id) ==
    IF \E i \in 1..Len(nodes) : nodes[i].id = id
    THEN CHOOSE i \in 1..Len(nodes) :
            nodes[i].id = id /\ \A j \in 1..(i - 1) : nodes[j].id # id
    ELSE 0

\* The snapshots the main process can send: statusResults of a tick of one
\* host list whose probes have all settled.
Snapshots ==
    UNION {
      { StatusResults([nodes |-> cfg, owner |-> 0, begun |-> 0,
                       probes |-> [i \in 1..Len(HostLists[cfg]) |->
                                     [io |-> ProbeIo(HostLists[cfg][i]),
                                      ev |-> evs[i], sock |-> "none",
                                      res |-> ProbeSettle(ProbeIo(HostLists[cfg][i]), evs[i])]]])
        : evs \in { f \in [1..Len(HostLists[cfg]) -> {"connect", "error", "timeout", "ok"}] :
                      \A i \in 1..Len(HostLists[cfg]) : f[i] \in ProbeEvents(HostLists[cfg][i]) } }
      : cfg \in 1..Len(HostLists) }

\* A tracker that creates an entry without a time stamp.
TrackerUpdateFirstUnstamped(trackers, id, currentStatus, now) ==
    IF id \notin DOMAIN trackers
    THEN [x \in DOMAIN trackers \cup {id} |->
             IF x = id THEN [status |-> currentStatus, since |-> 0] ELSE trackers[x]]
    ELSE IF trackers[id].status # currentStatus
    THEN [x \in DOMAIN trackers |->
             IF x = id THEN [status |-> currentStatus, since |-> now] ELSE trackers[x]]
    ELSE trackers

\* A tracker that stamps the time of every observation.
TrackerUpdateRestamps(trackers, id, currentStatus, now) ==
    [x \in DOMAIN trackers \cup {id} |->
        IF x = id THEN [status |-> currentStatus, since |-> now] ELSE trackers[x]]

\* The uptime tracking of one node of a snapshot.
TrackerUpdate(trackers, id, currentStatus, now) ==
    IF id \notin DOMAIN trackers
    THEN MapSet(trackers, id, [status |-> currentStatus, since |-> now])
    ELSE IF trackers[id].status # currentStatus
    THEN MapSet(trackers, id, [status |-> currentStatus, since |-> now])
    ELSE trackers

\* elapsed: Date.now() - (uptimeTrackers.get(id)?.since || Date.now()).
Elapsed(trackers, id, now) ==
    LET since == IF id \in DOMAIN trackers THEN trackers[id].since ELSE 0
    IN  now - (IF since # 0 THEN since ELSE now)

\* A slice that keeps the oldest n entries.
SliceFirst(h, n) == IF Len(h) > n THEN SubSeq(h, 1, n) ELSE h

\* history.slice(-MAX_HISTORY_ENTRIES)
SliceLast(h, n) == IF Len(h) > n THEN SubSeq(h, Len(h) - n + 1, Len(h)) ELSE h

\* A history that records a changed status without updating lastStatus.
trackStatusChangeKeepsLast(hist, nodeId, newStatus, now) ==
    IF nodeId \notin DOMAIN hist
    THEN [x \in DOMAIN hist \cup {nodeId} |->
             IF x = nodeId
             THEN [lastStatus |-> newStatus, lastChange |-> now,
                   history |-> <<[status |-> newStatus, time |-> now]>>]
             ELSE hist[x]]
    ELSE IF hist[nodeId].lastStatus # newStatus
    THEN [hist EXCEPT ![nodeId].history =
                          Append(@, [status |-> newStatus, time |-> now])]
    ELSE hist

\* trackStatusChange(nodeId, nodeName, newStatus)
trackStatusChange(hist, nodeId, newStatus, now) ==
    IF nodeId \notin DOMAIN hist
    THEN MapSet(hist, nodeId,
                [lastStatus |-> newStatus, lastChange |-> now,
                 history |-> <<[status |-> newStatus, time |-> now]>>])
    ELSE IF hist[nodeId].lastStatus # newStatus
    THEN MapSet(hist, nodeId,
                [lastStatus |-> newStatus, lastChange |-> now,
                 history |-> SliceLast(Append(hist[nodeId].history,
                                              [status |-> newStatus, time |-> now]),
                                       MAX_HISTORY_ENTRIES)])
    ELSE hist

\* The notification trackStatusChange raises: none on a first observation or
\* an unchanged status, else "online" (toastSuccess) or "offline" (toastError).
StatusToast(hist, nodeId, newStatus) ==
    IF nodeId \notin DOMAIN hist THEN "none"
    ELSE IF hist[nodeId].lastStatus # newStatus
    THEN (IF newStatus THEN "online" ELSE "offline")
    ELSE "none"

\* One node of data.nodes merged with its node of config.nodes, with the
\* uptime string; trackers is the tracker map after this node's update.
MergedNode(node, cfgNodes, trackers, now) ==
    LET k == FindNode(cfgNodes, node.id)
    IN  [id |-> node.id,
         address |-> IF k # 0 THEN cfgNodes[k].address ELSE node.address,
         port |-> IF k # 0 THEN cfgNodes[k].port ELSE node.port,
         primaryParentId |-> IF k # 0 THEN cfgNodes[k].primaryParentId
                             ELSE node.primaryParentId,
         secondaryParentId |-> IF k # 0 THEN cfgNodes[k].secondaryParentId
                               ELSE node.secondaryParentId,
         activeParentId |-> Field(node, "activeParentId"),
         status |-> node.status,
         uptime |-> formatDuration(Elapsed(trackers, node.id, now))]

\* The data.nodes.map(...) of the listener from node i on.
RECURSIVE MergeFrom(_, _, _, _, _, _, _)
MergeFrom(i, nodes, cfgNodes, trackers, hist, now, merged) ==
    IF i > Len(nodes)
    THEN [trackers |-> trackers, hist |-> hist, merged |-> merged]
    ELSE LET trackers2 == TrackerUpdate(trackers, nodes[i].id, nodes[i].status, now)
             hist2 == trackStatusChange(hist, nodes[i].id, nodes[i].status, now)
         IN  MergeFrom(i + 1, nodes, cfgNodes, trackers2, hist2, now,
                       Append(merged, MergedNode(nodes[i], cfgNodes, trackers2, now)))

\* renderTree's normalisation of the nodes it is given.
RenderTreeNode(n) ==
    LET primary == IF Field(n, "primaryParentId") \notin {Null, ""}
                   THEN n.primaryParentId ELSE Null
        active == IF Field(n, "activeParentId") \notin {Null, ""}
                  THEN n.activeParentId ELSE primary
    IN  MapSet(MapSet(n, "primaryParentId", primary), "activeParentId", active)

renderTree(nodes) == [i \in 1..Len(nodes) |-> RenderTreeNode(nodes[i])]

RendIdle ==
    /\ config = 0
    /\ networkData = <<>>
    /\ uptimeTrackers = EmptyMap
    /\ statusHistory = EmptyMap
    /\ lastUpdated = 0
    /\ dateNow = 0

InitRend ==
    /\ config \in 1..Len(HostLists)
    /\ networkData = <<>>
    /\ uptimeTrackers = EmptyMap
    /\ statusHistory = EmptyMap
    /\ lastUpdated = 0
    /\ dateNow = StartOfClock

\* The listener handles snapshot data.nodes.
OnStatus(nodes) ==
    LET out == MergeFrom(1, nodes, HostLists[config], uptimeTrackers, statusHistory,
                         dateNow, <<>>)
    IN  /\ config # 0
        /\ lastUpdated < MaxMsgs
        /\ lastUpdated' = lastUpdated + 1
        /\ uptimeTrackers' = out.trackers
        /\ statusHistory' = out.hist
        /\ networkData' = renderTree(out.merged)
        /\ UNCHANGED <<config, dateNow>>

\* The user's edit replaces config.nodes (saveNode, deleteNodeFromContext).
EditConfig(cfg) ==
    /\ config # 0
    /\ cfg # config
    /\ config' = cfg
    /\ UNCHANGED <<networkData, uptimeTrackers, statusHistory, lastUpdated, dateNow>>

\* Time passes in the renderer.
ClockAdvance ==
    /\ config # 0
    /\ dateNow < StartOfClock + MaxClock * 1000
    /\ dateNow' = dateNow + 1000
    /\ UNCHANGED <<config, networkData, uptimeTrackers, statusHistory, lastUpdated>>

\* The undo system before the renderer has loaded a configuration.
UndoIdle ==
    /\ undoStack = <<>>
    /\ redoStack = <<>>
    /\ document = <<>>
    /\ isDragging = FALSE
    /\ preEdit = <<>>
    /\ undoLog = [n |-> 0, op |-> "none"]

\* No ssh:connect has been called.
SshIdle ==
    /\ sshConnections = EmptyMap
    /\ sshConns = <<>>
    /\ sshLast = 0
    /\ sshReply = [op |-> "none", success |-> FALSE]

\* network:scan has not been invoked.
ScanIdle ==
    /\ scanPc = "off"
    /\ scanI = 0
    /\ scanRange = <<>>
    /\ scanOnline = {}
    /\ scanOffline = 0
    /\ scanResults = <<>>
    /\ scanProgress = 0

AuxIdle == UndoIdle /\ SshIdle /\ ScanIdle

FnIdle == fnIn = <<>> /\ fnOut = <<>> /\ channel = <<>> /\ applied = 0 /\ AuxIdle

(***************************************************************************)
(* The two monitors: a behaviour is a run of the Electron scheduler or a   *)
(* run of monitor.ps1.                                                     *)
(***************************************************************************)
Init ==
    \/ InitMain /\ PsIdle /\ RendIdle /\ FnIdle
    \/ InitPs /\ InitMain /\ RendIdle /\ FnIdle

\* A step of the Electron main process / of the script.
Electron(A) == psPc = "off" /\ A /\ UNCHANGED <<psVars, rendVars, chanVars, fnVars, auxVars>>
Script(A) == psPc # "off" /\ A /\ UNCHANGED <<mainVars, rendVars, chanVars, fnVars, auxVars>>
Renderer(A) == A /\ UNCHANGED <<mainVars, psVars, chanVars, fnVars, auxVars>>

Next ==
    \/ \E cfg \in 1..Len(HostLists) : Electron(StartCall(cfg))
    \/ \E tm \in armed : Electron(TimerFire(tm))
    \/ \E s \in 1..MaxInFlight, i \in 1..3, ev \in {"connect", "error", "timeout", "ok"} :
          Electron(ProbeEvent(s, i, ev))
    \/ Electron(StopCall)
    \/ Script(PsLoadFails)
    \/ \E cfg \in 1..Len(HostLists) : Script(PsLoadConfig(cfg))
    \/ \E ev \in {"connected", "waitTimeout", "refused", "Success", "TimedOut", "exception"} :
          Script(PsCheck(ev))
    \/ Script(PsProcess)
    \/ Script(PsSleep)

Spec == Init /\ [][Next]_vars

(***************************************************************************)
(* The two monitors under fair scheduling.  Every outstanding probe gets    *)
(* its event: the socket has a timeout of 1000 ms and the ping process      *)
(* exits (ping -c 1 -W 1); in monitor.ps1 Ping.Send and WaitOne return      *)
(* within their timeouts, and the script runs on after each blocking call.  *)
(***************************************************************************)
Progress ==
    \/ \E s \in 1..MaxInFlight, i \in 1..3, ev \in {"connect", "error", "timeout", "ok"} :
          Electron(ProbeEvent(s, i, ev))
    \/ \E ev \in {"connected", "waitTimeout", "refused", "Success", "TimedOut", "exception"} :
          Script(PsCheck(ev))
    \/ Script(PsProcess)

Fairness == WF_vars(Progress)

SpecLive == Init /\ [][Next]_vars /\ Fairness

(***************************************************************************)
(* The Electron scheduler in its host process: monitor:start is also       *)
(* called with a null config or a config without nodes, and the main       *)
(* window can be closed and opened again.  The IPC calls come from the     *)
(* renderer of the window, so there are none while no window is open.      *)
(***************************************************************************)
InitHost == InitMain /\ PsIdle /\ RendIdle /\ FnIdle

FromRenderer(A) == mainWindow = "open" /\ Electron(A)

NextHost ==
    \/ \E cfg \in 1..Len(HostLists) : FromRenderer(StartCall(cfg))
    \/ \E cfg \in {0, NoNodes} : FromRenderer(StartMalformed(cfg))
    \/ \E tm \in armed : Electron(TimerFire(tm))
    \/ \E s \in 1..MaxInFlight, i \in 1..3, ev \in {"connect", "error", "timeout", "ok"} :
          Electron(ProbeEvent(s, i, ev))
    \/ FromRenderer(StopCall)
    \/ \E platform \in {"darwin", "other"} : Electron(WindowClosed(platform))
    \/ Electron(Activate)

SpecHost == InitHost /\ [][NextHost]_vars

(***************************************************************************)
(* The two state trackers: a behaviour is a run of the renderer's listener *)
(* on the snapshots of the Electron scheduler, or a run of monitor.ps1.    *)
(***************************************************************************)
InitTrackers ==
    \/ InitRend /\ InitMain /\ PsIdle /\ FnIdle
    \/ InitPs /\ InitMain /\ RendIdle /\ FnIdle

NextTrackers ==
    \/ \E nodes \in Snapshots : Renderer(OnStatus(nodes))
    \/ \E cfg \in 1..Len(HostLists) : Renderer(EditConfig(cfg))
    \/ Renderer(ClockAdvance)
    \/ Script(PsLoadFails)
    \/ \E cfg \in 1..Len(HostLists) : Script(PsLoadConfig(cfg))
    \/ \E ev \in {"connected", "waitTimeout", "refused", "Success", "TimedOut", "exception"} :
          Script(PsCheck(ev))
    \/ Script(PsProcess)
    \/ Script(PsSleep)

SpecTrackers == InitTrackers /\ [][NextTrackers]_vars

(***************************************************************************)
(* The Electron scheduler with the renderer's listener behind the channel  *)
(* monitor:status (or a run of monitor.ps1).  A message the main process   *)
(* sends is queued; the listener handles the messages in the order sent.   *)
(* startMonitoring calls monitor:start with the renderer's config.nodes.    *)
(***************************************************************************)
InitPipeline ==
    \/ InitMain /\ InitRend /\ PsIdle /\ FnIdle
    \/ InitPs /\ InitMain /\ RendIdle /\ FnIdle

\* A step of the main process; what it sends is queued on the channel.
Main(A) ==
    /\ psPc = "off"
    /\ A
    /\ channel' = IF sent'.seq # sent.seq THEN Append(channel, sent') ELSE channel
    /\ UNCHANGED <<psVars, rendVars, applied, fnVars, auxVars>>

\* The listener is called with the oldest message of the channel.
Deliver ==
    /\ channel # <<>>
    /\ OnStatus(Head(channel).nodes)
    /\ channel' = Tail(channel)
    /\ applied' = Head(channel).tick
    /\ UNCHANGED <<mainVars, psVars, fnVars, auxVars>>

NextPipeline ==
    \/ Main(StartCall(config))
    \/ \E tm \in armed : Main(TimerFire(tm))
    \/ \E s \in 1..MaxInFlight, i \in 1..3, ev \in {"connect", "error", "timeout", "ok"} :
          Main(ProbeEvent(s, i, ev))
    \/ Main(StopCall)
    \/ Deliver
    \/ Script(PsLoadFails)
    \/ \E cfg \in 1..Len(HostLists) : Script(PsLoadConfig(cfg))
    \/ \E ev \in {"connected", "waitTimeout", "refused", "Success", "TimedOut", "exception"} :
          Script(PsCheck(ev))
    \/ Script(PsProcess)
    \/ Script(PsSleep)

SpecPipeline == InitPipeline /\ [][NextPipeline]_vars

(***************************************************************************)
(* The Topology Resolver on its own: the Failover Logic of monitor.ps1     *)
(* applied to one host and one statuses map.  The host is "H"; "A" and "B" *)
(* are hosts of the map, "X" is in no map.                                 *)
(***************************************************************************)
ResolverInputs ==
    { [fn |-> "resolve",
       entry |-> [id |-> "H", primaryParentId |-> p, secondaryParentId |-> q],
       st |-> [x \in {"A", "B", "H"} |-> IF x = "A" THEN a ELSE IF x = "B" THEN b ELSE h]]
      : p \in {Null, "A", "B", "X", "H"}, q \in {Null, "A", "B", "X", "H"},
        a \in BOOLEAN, b \in BOOLEAN, h \in BOOLEAN }

InitResolver ==
    /\ InitMain /\ PsIdle /\ RendIdle
    /\ fnIn \in ResolverInputs
    /\ fnOut = <<>>
    /\ channel = <<>> /\ applied = 0 /\ AuxIdle

ApplyResolver ==
    /\ fnIn # <<>>
    /\ fnIn.fn = "resolve"
    /\ fnOut = <<>>
    /\ fnOut' = [activeParentId |-> ResolveActiveParent(fnIn.entry, fnIn.st)]
    /\ UNCHANGED <<fnIn, mainVars, psVars, rendVars, chanVars, auxVars>>

SpecResolver == InitResolver /\ [][ApplyResolver]_vars

(***************************************************************************)
(* trackStatusChange on its own, for one node "N".  The history it starts  *)
(* from is one a run can have built: none yet, or n entries of alternating  *)
(* status, one per second; then observations follow one per second.        *)
(***************************************************************************)
HistoryOf(n, first) ==
    [lastStatus |-> IF n % 2 = 1 THEN first ELSE ~first,
     lastChange |-> n * 1000,
     history |-> [k \in 1..n |-> [status |-> IF k % 2 = 1 THEN first ELSE ~first,
                                  time |-> k * 1000]]]

HistoryInputs ==
    { [fn |-> "track", seen |-> 0, hist |-> EmptyMap, newStatus |-> b, now |-> 1000]
      : b \in BOOLEAN }
    \cup
    { [fn |-> "track", seen |-> 0, hist |-> MapSet(EmptyMap, "N", HistoryOf(n, first)),
       newStatus |-> b, now |-> (n + 1) * 1000]
      : n \in 1..MAX_HISTORY_ENTRIES, first \in BOOLEAN, b \in BOOLEAN }

InitHistory ==
    /\ InitMain /\ PsIdle /\ RendIdle
    /\ fnIn \in HistoryInputs
    /\ fnOut = <<>>
    /\ channel = <<>> /\ applied = 0 /\ AuxIdle

\* The listener calls trackStatusChange with the observed status.
ApplyTrack ==
    /\ fnIn # <<>>
    /\ fnIn.fn = "track"
    /\ fnOut = <<>>
    /\ fnOut' = [hist |-> trackStatusChange(fnIn.hist, "N", fnIn.newStatus, fnIn.now),
                 toast |-> StatusToast(fnIn.hist, "N", fnIn.newStatus)]
    /\ UNCHANGED <<fnIn, mainVars, psVars, rendVars, chanVars, auxVars>>

\* The next snapshot brings the next observation of the node.
NextObservation(b) ==
    /\ fnIn # <<>>
    /\ fnIn.fn = "track"
    /\ fnOut # <<>>
    /\ fnIn.seen < MaxObservations
    /\ fnIn' = [fn |-> "track", seen |-> fnIn.seen + 1, hist |-> fnOut.hist,
                newStatus |-> b, now |-> fnIn.now + 1000]
    /\ fnOut' = <<>>
    /\ UNCHANGED <<mainVars, psVars, rendVars, chanVars, auxVars>>

NextHistory ==
    \/ ApplyTrack
    \/ \E b \in BOOLEAN : NextObservation(b)

SpecHistory == InitHistory /\ [][NextHistory]_vars

(***************************************************************************)
(* The two duration formatters on their own.                               *)
(***************************************************************************)
DurationInputs ==
    { [fn |-> "format",
       ms |-> d * 86400000 + h * 3600000 + m * 60000 + sec * 1000 + f]
      : d \in 0..MaxDays, h \in {0, 1, 23}, m \in {0, 1, 59}, sec \in {0, 1, 59},
        f \in {0, 999} }

InitFmt ==
    /\ InitMain /\ PsIdle /\ RendIdle
    /\ fnIn \in DurationInputs
    /\ fnOut = <<>>
    /\ channel = <<>> /\ applied = 0 /\ AuxIdle

ApplyFormat ==
    /\ fnIn # <<>>
    /\ fnIn.fn = "format"
    /\ fnOut = <<>>
    /\ fnOut' = [js |-> formatDuration(fnIn.ms), ps |-> GetDurationString(fnIn.ms)]
    /\ UNCHANGED <<fnIn, mainVars, psVars, rendVars, chanVars, auxVars>>

SpecFmt == InitFmt /\ [][ApplyFormat]_vars

(***************************************************************************)
(* The undo / redo system of the renderer.  The document is config.nodes   *)
(* and config.connections; a position is written as a string.              *)
(***************************************************************************)
MAX_UNDO_HISTORY == 50

\* The value of a property that an object does not have, or has as undefined.
Undefined == "<undefined>"

Prop(obj, name) == IF name \in DOMAIN obj THEN obj[name] ELSE Undefined

Without(obj, name) == [k \in DOMAIN obj \ {name} |-> obj[k]]

\* JSON.parse(JSON.stringify(node)): a property whose value is undefined is
\* not written, so the copy does not have it.
JsonCloneNode(n) == [k \in {f \in DOMAIN n : n[f] # Undefined} |-> n[k]]

JsonClone(doc) ==
    [nodes |-> [i \in 1..Len(doc.nodes) |-> JsonCloneNode(doc.nodes[i])],
     connections |-> doc.connections]

\* A push that never drops the oldest state.
PushUnlimited(stack, state) == Append(stack, state)

\* undoStack.push(state); if (undoStack.length > MAX_UNDO_HISTORY) shift()
PushLimited(stack, state) ==
    LET pushed == Append(stack, state)
    IN  IF Len(pushed) > MAX_UNDO_HISTORY THEN Tail(pushed) ELSE pushed

\* saveStateForUndo: the new undo stack (the redo stack is emptied by the
\* actions that call it).
saveStateForUndo(stack, doc) == PushLimited(stack, JsonClone(doc))

Front(stack) == SubSeq(stack, 1, Len(stack) - 1)

\* undo() on the stacks and the document st = [undo, redo, doc].
UndoOp(st) ==
    IF st.undo = <<>> THEN st
    ELSE LET previousState == st.undo[Len(st.undo)]
         IN  [undo |-> Front(st.undo),
              redo |-> Append(st.redo, JsonClone(st.doc)),
              doc |-> [nodes |-> renderTree(previousState.nodes),
                       connections |-> previousState.connections]]

\* redo()
RedoOp(st) ==
    IF st.redo = <<>> THEN st
    ELSE LET nextState == st.redo[Len(st.redo)]
         IN  [undo |-> Append(st.undo, JsonClone(st.doc)),
              redo |-> Front(st.redo),
              doc |-> [nodes |-> renderTree(nextState.nodes),
                       connections |-> nextState.connections]]

UndoState == [undo |-> undoStack, redo |-> redoStack, doc |-> document]

\* A node as loaded and rendered once, and the same node of a configuration
\* file that has no coordinates.
NodePlaced == [id |-> "A", primaryParentId |-> Null, activeParentId |-> Null,
               x |-> "5"]
NodeLegacy == Without(NodePlaced, "x")

Positions == {"5", "15"}

\* The document after k - 1 edits that add and delete one connection in turn.
SavedDoc(node, k) ==
    [nodes |-> <<node>>,
     connections |-> IF k % 2 = 1 THEN <<>> ELSE <<"c1">>]

\* A session in which the connection was added and deleted n times.
InitUndo ==
    \E n \in 0..MAX_UNDO_HISTORY, node \in {NodePlaced, NodeLegacy} :
        /\ undoStack = [k \in 1..n |-> SavedDoc(node, k)]
        /\ redoStack = <<>>
        /\ document = SavedDoc(node, n + 1)
        /\ isDragging = FALSE
        /\ preEdit = SavedDoc(node, n + 1)
        /\ undoLog = [n |-> 0, op |-> "none"]

Log(op) == undoLog' = [n |-> undoLog.n + 1, op |-> op]

WithNode(doc, node) == [doc EXCEPT !.nodes = <<node>>]

\* startNodeDrag: mouse down on the node.
StartDrag ==
    /\ undoLog.n < MaxEdits
    /\ ~isDragging
    /\ isDragging' = TRUE
    /\ preEdit' = document
    /\ Log("startDrag")
    /\ UNCHANGED <<undoStack, redoStack, document>>

\* handleNodeDrag: the temporary position is stored on the node.
DragMove(pos) ==
    /\ undoLog.n < MaxEdits
    /\ isDragging
    /\ document' = WithNode(document, MapSet(document.nodes[1], "_tempX", pos))
    /\ Log("dragMove")
    /\ UNCHANGED <<undoStack, redoStack, isDragging, preEdit>>

\* endNodeDrag: mouse up.  With a temporary position on the node the state
\* is saved, the position applied and the temporary position deleted.
EndDrag ==
    /\ undoLog.n < MaxEdits
    /\ isDragging
    /\ LET node == document.nodes[1]
       IN  IF Prop(node, "_tempX") # Undefined
           THEN /\ undoStack' = saveStateForUndo(undoStack, document)
                /\ redoStack' = <<>>
                /\ document' = WithNode(document,
                                  Without(MapSet(node, "x", node["_tempX"]), "_tempX"))
                /\ Log("move")
           ELSE /\ UNCHANGED <<undoStack, redoStack, document>>
                /\ Log("click")
    /\ isDragging' = FALSE
    /\ UNCHANGED preEdit

\* A new connection between two ports.
Connect ==
    /\ undoLog.n < MaxEdits
    /\ ~isDragging
    /\ document.connections = <<>>
    /\ undoStack' = saveStateForUndo(undoStack, document)
    /\ redoStack' = <<>>
    /\ document' = [document EXCEPT !.connections = <<"c1">>]
    /\ preEdit' = document
    /\ Log("connect")
    /\ UNCHANGED isDragging

\* deleteSelectedConnection
DeleteConnection ==
    /\ undoLog.n < MaxEdits
    /\ ~isDragging
    /\ document.connections # <<>>
    /\ undoStack' = saveStateForUndo(undoStack, document)
    /\ redoStack' = <<>>
    /\ document' = [nodes |-> renderTree(document.nodes), connections |-> <<>>]
    /\ preEdit' = document
    /\ Log("disconnect")
    /\ UNCHANGED isDragging

\* saveNode of an existing node: the form's node replaces the stored one and
\* takes its coordinates.
SaveNode(primary) ==
    /\ undoLog.n < MaxEdits
    /\ ~isDragging
    /\ LET old == document.nodes[1]
           nodeData == [id |-> old.id, primaryParentId |-> primary,
                        x |-> Prop(old, "x")]
       IN  /\ undoStack' = saveStateForUndo(undoStack, document)
           /\ redoStack' = <<>>
           /\ document' = [document EXCEPT !.nodes = renderTree(<<nodeData>>)]
    /\ preEdit' = document
    /\ Log("edit")
    /\ UNCHANGED isDragging

Undo ==
    /\ undoLog.n < MaxEdits
    /\ ~isDragging
    /\ LET st == UndoOp(UndoState)
       IN  /\ undoStack' = st.undo
           /\ redoStack' = st.redo
           /\ document' = st.doc
    /\ Log("undo")
    /\ UNCHANGED <<isDragging, preEdit>>

Redo ==
    /\ undoLog.n < MaxEdits
    /\ ~isDragging
    /\ LET st == RedoOp(UndoState)
       IN  /\ undoStack' = st.undo
           /\ redoStack' = st.redo
           /\ document' = st.doc
    /\ Log("redo")
    /\ UNCHANGED <<isDragging, preEdit>>

InitUndoSpec ==
    /\ InitMain /\ PsIdle /\ RendIdle
    /\ fnIn = <<>> /\ fnOut = <<>>
    /\ channel = <<>> /\ applied = 0
    /\ InitUndo /\ SshIdle /\ ScanIdle

Editor(A) ==
    A /\ UNCHANGED <<mainVars, psVars, rendVars, chanVars, fnVars, sshVars, scanVars>>

NextUndo ==
    \/ Editor(StartDrag)
    \/ \E pos \in Positions : Editor(DragMove(pos))
    \/ Editor(EndDrag)
    \/ Editor(Connect)
    \/ Editor(DeleteConnection)
    \/ \E primary \in {Null, "P"} : Editor(SaveNode(primary))
    \/ Editor(Undo)
    \/ Editor(Redo)

SpecUndo == InitUndoSpec /\ [][NextUndo]_vars

(***************************************************************************)
(* The SSH handlers of the main process, for one node id.  A connection is *)
(* known by the order in which ssh:connect created it.                     *)
(***************************************************************************)
SshNode == "A"

\* A Client just created by ssh:connect: no shell yet, socket open.
NewConn == [stream |-> "none", sock |-> "open"]

\* ssh:connect: new Client(), handlers registered, conn.connect().
SshConnect ==
    /\ Len(sshConns) < MaxConns
    /\ sshConns' = Append(sshConns, NewConn)
    /\ UNCHANGED <<sshConnections, sshLast, sshReply>>

\* 'ready' and the shell callback without error: the entry of the node id is
\* set to this connection, whatever it held.
SshReady(c) ==
    /\ sshConns[c] = NewConn
    /\ sshConnections' = MapSet(sshConnections, SshNode, c)
    /\ sshConns' = [sshConns EXCEPT ![c].stream = "open"]
    /\ sshLast' = c
    /\ UNCHANGED sshReply

\* 'error' before the shell, or the shell callback with an error
\* (conn.end()): the promise resolves with a failure and the socket closes
\* later.
SshFail(c) ==
    /\ sshConns[c] = NewConn
    /\ sshConns' = [sshConns EXCEPT ![c].sock = "ended"]
    /\ UNCHANGED <<sshConnections, sshLast, sshReply>>

\* stream.on('close'): sshConnections.delete(nodeId)
SshStreamClose(c) ==
    /\ sshConns[c].stream = "open"
    /\ sshConns' = [sshConns EXCEPT ![c].stream = "closed"]
    /\ sshConnections' = Without(sshConnections, SshNode)
    /\ UNCHANGED <<sshLast, sshReply>>

\* conn.on('close'): sshConnections.delete(nodeId).  The socket closes after
\* the shell of the connection, if it had one.
SshConnClose(c) ==
    /\ sshConns[c].sock # "closed"
    /\ sshConns[c].stream # "open"
    /\ sshConns' = [sshConns EXCEPT ![c].sock = "closed"]
    /\ sshConnections' = Without(sshConnections, SshNode)
    /\ UNCHANGED <<sshLast, sshReply>>

\* ssh:write and ssh:resize
SshWrite(op) ==
    /\ sshReply' = [op |-> op, success |-> SshNode \in DOMAIN sshConnections]
    /\ UNCHANGED <<sshConnections, sshConns, sshLast>>

\* ssh:disconnect: conn.end() on the connection of the entry, entry deleted.
SshDisconnect ==
    IF SshNode \in DOMAIN sshConnections
    THEN /\ sshConns' = [sshConns EXCEPT ![sshConnections[SshNode]].sock =
                            IF @ = "open" THEN "ended" ELSE @]
         /\ sshConnections' = Without(sshConnections, SshNode)
         /\ sshReply' = [op |-> "disconnect", success |-> TRUE]
         /\ UNCHANGED sshLast
    ELSE /\ sshReply' = [op |-> "disconnect", success |-> FALSE]
         /\ UNCHANGED <<sshConnections, sshConns, sshLast>>

InitSsh ==
    /\ InitMain /\ PsIdle /\ RendIdle
    /\ fnIn = <<>> /\ fnOut = <<>>
    /\ channel = <<>> /\ applied = 0
    /\ UndoIdle /\ SshIdle /\ ScanIdle

Ssh(A) ==
    A /\ UNCHANGED <<mainVars, psVars, rendVars, chanVars, fnVars, undoVars, scanVars>>

NextSsh ==
    \/ Ssh(SshConnect)
    \/ \E c \in 1..Len(sshConns) : Ssh(SshReady(c))
    \/ \E c \in 1..Len(sshConns) : Ssh(SshFail(c))
    \/ \E c \in 1..Len(sshConns) : Ssh(SshStreamClose(c))
    \/ \E c \in 1..Len(sshConns) : Ssh(SshConnClose(c))
    \/ \E op \in {"write", "resize"} : Ssh(SshWrite(op))
    \/ Ssh(SshDisconnect)

SpecSsh == InitSsh /\ [][NextSsh]_vars

(***************************************************************************)
(* network:scan.  The pings that will fail are told apart only by their    *)
(* number: the callback of a failed ping does nothing but resolve.         *)
(***************************************************************************)
\* if (scanPromises.length >= 20)
ScanBatch == 20

\* The last address of the batch that begins at address i, when every
\* address left is pinged at once.
BatchEndWholeRange(i, endRange) == endRange

\* The last address the loop reaches from address i before it awaits.
BatchEnd(i, endRange) ==
    IF i + ScanBatch - 1 < endRange THEN i + ScanBatch - 1 ELSE endRange

\* The addresses that answer a ping, in the ranges scanned.
Responders == {1, 20, 21}

\* The loop from address i: pings are started up to the end of the batch and
\* the handler awaits them, inside the loop after a full batch, after the
\* loop otherwise; with no ping started the handler returns.
ScanFrom(i) ==
    LET last == BatchEnd(i, scanRange.endRange)
        started == i..last
    IN  /\ scanI' = last + 1
        /\ scanOnline' = started \cap scanRange.online
        /\ scanOffline' = Cardinality(started \ scanRange.online)
        /\ scanPc' = IF started = {} THEN "returned"
                     ELSE IF Cardinality(started) >= ScanBatch THEN "batch"
                     ELSE "rest"

\* The renderer invokes network:scan.
ScanStart ==
    /\ scanPc = "idle"
    /\ mainWindow = "open"
    /\ ScanFrom(scanRange.startRange)
    /\ UNCHANGED <<scanRange, scanResults, scanProgress>>

\* The last ping of the awaited ones has settled: after a full batch the
\* progress is sent to mainWindow.webContents (a TypeError with no window,
\* which rejects the call) and the loop goes on; after the loop the results
\* are returned.
ScanResume ==
    IF scanPc = "rest"
    THEN /\ scanPc' = "returned"
         /\ scanOnline' = {} /\ scanOffline' = 0
         /\ UNCHANGED <<scanI, scanProgress>>
    ELSE IF mainWindow # "open"
    THEN /\ scanPc' = "rejected"
         /\ scanOnline' = {} /\ scanOffline' = 0
         /\ UNCHANGED <<scanI, scanProgress>>
    ELSE /\ scanProgress' = scanProgress + 1
         /\ ScanFrom(scanI)

\* exec's callback without an error: results.push({ ip, online: true })
PingAnswered(ip) ==
    /\ scanPc \in {"batch", "rest"}
    /\ mainWindow # "quit"
    /\ ip \in scanOnline
    /\ scanResults' = Append(scanResults, ip)
    /\ IF scanOnline = {ip} /\ scanOffline = 0
       THEN ScanResume
       ELSE /\ scanOnline' = scanOnline \ {ip}
            /\ UNCHANGED <<scanPc, scanI, scanOffline, scanProgress>>
    /\ UNCHANGED scanRange

\* exec's callback with an error.
PingFailed ==
    /\ scanPc \in {"batch", "rest"}
    /\ mainWindow # "quit"
    /\ scanOffline > 0
    /\ IF scanOnline = {} /\ scanOffline = 1
       THEN ScanResume
       ELSE /\ scanOffline' = scanOffline - 1
            /\ UNCHANGED <<scanPc, scanI, scanOnline, scanProgress>>
    /\ UNCHANGED <<scanRange, scanResults>>

InitScan ==
    /\ InitMain /\ PsIdle /\ RendIdle
    /\ fnIn = <<>> /\ fnOut = <<>>
    /\ channel = <<>> /\ applied = 0
    /\ UndoIdle /\ SshIdle
    /\ scanPc = "idle"
    /\ scanI = 0
    /\ scanRange \in [startRange : 1..2, endRange : 0..MaxEnd,
                      online : SUBSET Responders]
    /\ scanOnline = {}
    /\ scanOffline = 0
    /\ scanResults = <<>>
    /\ scanProgress = 0

Scan(A) ==
    A /\ UNCHANGED <<mainVars, psVars, rendVars, chanVars, fnVars, undoVars, sshVars>>

NextScan ==
    \/ Scan(ScanStart)
    \/ \E ip \in Responders : Scan(PingAnswered(ip))
    \/ Scan(PingFailed)
    \/ \E platform \in {"darwin", "linux"} : Electron(WindowClosed(platform))
    \/ Electron(Activate)

SpecScan == InitScan /\ [][NextScan]_vars

(***************************************************************************)
(* Claims about the Electron scheduler.                                    *)
(***************************************************************************)

\* C1: only one Running monitor instance exists at a time: whatever the
\* interleaving of monitor:start and monitor:stop calls, at most one periodic
\* timer is armed and every armed timer is the one recorded in
\* monitoringInterval.
C1_SingleArmedTimer ==
    /\ Cardinality(armed) <= 1
    /\ \A tm \in armed : tm = monitoringInterval

\* C2: no timer is armed after monitor:stop has returned, until a later
\* monitor:start is issued, also when the stop was processed while a start
\* was still awaiting its immediate first tick.
C2_NoTimerAfterStop == lastCall = "stop" => armed = {}

\* C3: a restart fully replaces the monitored hosts: every snapshot published
\* after a monitor:start call holds only hosts of that call's host list, even
\* if a tick of the old configuration was in flight when start was called.
C3_RemovedHostNotPublished ==
    [][sent'.seq # sent.seq
          => Ids(sent'.nodes) \subseteq Ids(HostLists[monitoringConfig'])]_vars

\* C8: stop is idempotent: every monitor:stop call, the first and a repeated
\* one, returns success and leaves the scheduler Idle with no timer armed, and
\* a stop on an Idle scheduler changes no other state.
C8_StopIdempotent ==
    [][StopCall =>
          /\ stopRet' = "success"
          /\ monitoringInterval' = 0
          /\ armed' = {}
          /\ (monitoringInterval = 0 =>
                 UNCHANGED <<monitoringConfig, armed, starts, ticks, sent, nTicks>>)]_vars

\* C9: for a host whose address is empty no I/O is attempted: no tick holds a
\* probe that opened a socket or issued a ping for such a host.
C9_NoIoForEmptyAddress ==
    \A s \in 1..MaxInFlight :
        \A i \in 1..Len(ticks[s].probes) :
            HostLists[ticks[s].nodes][i].address = "" => ticks[s].probes[i].io = "none"

\* C10: a probe never raises to its caller: every settled probe settled with a
\* status, an error or a timeout with status false; no tick is aborted and no
\* start call fails, so every tick begun is in flight or has published; and
\* what a tick publishes holds one entry for every host of its list.  In
\* monitor.ps1 every check that failed recorded false, the checks leave a
\* status for every host and status.js gets one entry for every host.
C10_ProbeNeverRaises ==
    /\ \A s \in 1..MaxInFlight : \A i \in 1..Len(ticks[s].probes) :
          LET pr == ticks[s].probes[i]
          IN  /\ pr.res \in {"pending", "up", "down"}
              /\ pr.ev \in {"error", "timeout"} => pr.res = "down"
    /\ \A k \in 1..Len(starts) : starts[k] # "error"
    /\ nTicks = sent.seq + Cardinality({s \in 1..MaxInFlight : ticks[s] # NoTick})
    /\ sent.seq > 0 =>
          \E cfg \in 1..Len(HostLists) :
              /\ Len(sent.nodes) = Len(HostLists[cfg])
              /\ \A i \in 1..Len(sent.nodes) :
                    /\ sent.nodes[i].id = HostLists[cfg][i].id
                    /\ sent.nodes[i].status \in BOOLEAN
    /\ \A k \in 1..Len(psIo) :
          psIo[k][3] \notin {"Success", "connected"} => statuses[psIo[k][1]] = FALSE
    /\ psPc \in {"process", "sleep"} => DOMAIN statuses = Ids(psNodes)
    /\ psPc = "sleep" =>
          /\ Len(statusJs.nodes) = Len(psNodes)
          /\ \A i \in 1..Len(psNodes) :
                /\ statusJs.nodes[i].id = psNodes[i].id
                /\ statusJs.nodes[i].status = statuses[psNodes[i].id]

\* C10 witness: a published snapshot in which the check of one host failed
\* (B's TCP connect: status false) and the other hosts are all there, one up.
C10_Witness ==
    /\ sent.seq > 0
    /\ Len(sent.nodes) = 3
    /\ sent.nodes[1].status = TRUE
    /\ sent.nodes[2].status = FALSE

\* C11: a monitor:start call with a null config or a config without a nodes
\* array is rejected with an error and does not make the scheduler Running:
\* the call fails and the timer of the call is not armed.
C11_MalformedStartRejected ==
    [][(Len(starts') = Len(starts) + 1 /\ monitoringConfig' \notin 1..Len(HostLists))
          => /\ starts'[Len(starts')] = "error"
             /\ Len(starts') \notin armed']_vars

\* C14: a tick that completes while mainWindow is null drops its snapshot
\* without raising an error: nothing is sent, no promise is rejected (neither
\* the tick's own nor the start call awaiting it) and every armed timer stays
\* armed.
C14_ClosedWindowDropsSnapshot ==
    [][(mainWindow = "closed"
          /\ \E s \in 1..MaxInFlight : ticks[s] # NoTick /\ ticks'[s] = NoTick)
          => /\ sent' = sent
             /\ unhandled' = unhandled
             /\ \A k \in 1..Len(starts) : starts'[k] = "error" => starts[k] = "error"
             /\ armed \subseteq armed']_vars

\* C13: the first tick of a run begins with the start itself, and its
\* snapshot is published before the start call returns success; monitor.ps1
\* writes status.js before it sleeps for the scan interval a first time.
C13_FirstTickImmediate ==
    [][/\ Len(starts') = Len(starts) + 1 =>
            \E s \in 1..MaxInFlight :
                /\ ticks[s] = NoTick
                /\ ticks'[s].owner = Len(starts')
                /\ starts'[Len(starts')] = "await"
       /\ \A k \in 1..Len(starts) :
            (starts[k] # "success" /\ starts'[k] = "success") =>
                \E s \in 1..MaxInFlight :
                    /\ ticks[s].owner = k
                    /\ sent'.seq = sent.seq + 1
                    /\ sent'.tick = ticks[s].begun
       /\ psPc' = "sleep" => statusJs'.written >= 1]_vars

\* C13 witness: a start call has returned success, one snapshot has been
\* published, and it is the snapshot of the only tick begun so far.
C13_Witness ==
    /\ starts = <<"success">>
    /\ nTicks = 1
    /\ sent.seq = 1 /\ sent.tick = 1

\* C16: every tick holds exactly one check per host: one TCP connect for a
\* host with a port and one ping for a host without (hosts with a non-empty
\* address); monitor.ps1 issues for each such host one check of the kind its
\* port selects, and none twice.
C16_OneCheckPerHostByPort ==
    /\ \A s \in 1..MaxInFlight :
          ticks[s] # NoTick =>
              /\ Len(ticks[s].probes) = Len(HostLists[ticks[s].nodes])
              /\ \A i \in 1..Len(ticks[s].probes) :
                    LET node == HostLists[ticks[s].nodes][i]
                    IN  node.address # "" =>
                            ticks[s].probes[i].io = IF node.port # 0 THEN "tcp" ELSE "ping"
    /\ \A i \in 1..Len(psNodes) :
          LET issued == {k \in 1..Len(psIo) : psIo[k][1] = psNodes[i].id}
          IN  /\ Cardinality(issued) <= 1
              /\ \A k \in issued :
                    psIo[k][2] = IF psNodes[i].port # 0 THEN "tcp" ELSE "ping"
              /\ (psNodes[i].address # "" /\ (psIdx > i \/ psPc \in {"process", "sleep"}))
                    => Cardinality(issued) = 1

\* C16 witness: a tick in flight whose ping of A and TCP connect of B have
\* both been answered while the check of C is outstanding.
C16_Witness ==
    \E s \in 1..MaxInFlight :
        /\ ticks[s] # NoTick
        /\ Len(ticks[s].probes) = 3
        /\ ticks[s].probes[1].io = "ping" /\ ticks[s].probes[1].ev = "ok"
        /\ ticks[s].probes[2].io = "tcp" /\ ticks[s].probes[2].ev = "timeout"
        /\ ticks[s].probes[3].res = "pending"

\* The parent the failover policy gives for a host and a statuses map.
PolicyParent(e, st) ==
    IF e.primaryParentId # Null /\ e.primaryParentId \in DOMAIN st /\ st[e.primaryParentId]
    THEN e.primaryParentId
    ELSE IF e.secondaryParentId # Null /\ e.secondaryParentId \in DOMAIN st
            /\ st[e.secondaryParentId]
    THEN e.secondaryParentId
    ELSE e.primaryParentId

\* C17: monitor.ps1 resolves only when the statuses map of the iteration
\* holds every host, and every entry written to status.js carries the status
\* of this iteration and the parent the policy gives for the statuses of this
\* same iteration.
C17_ResolverSeesFullTick ==
    /\ psPc \in {"process", "sleep"} => DOMAIN statuses = Ids(psNodes)
    /\ psPc = "sleep" =>
          \A i \in 1..Len(statusJs.nodes) :
              /\ statusJs.nodes[i].status = statuses[statusJs.nodes[i].id]
              /\ statusJs.nodes[i].activeParentId = PolicyParent(psNodes[i], statuses)

\* C17 witness: hosts A (no parent), B (primary A), C (primary A, secondary
\* B) with A down, B up and C up: one iteration gives A null, B on A, C on B.
C17_Witness ==
    /\ psPc = "sleep"
    /\ Len(statusJs.nodes) = 3
    /\ ~statuses["A"] /\ statuses["B"] /\ statuses["C"]
    /\ statusJs.nodes[1].activeParentId = Null
    /\ statusJs.nodes[2].activeParentId = "A"
    /\ statusJs.nodes[3].activeParentId = "B"

\* C21: a TCP-connect probe that has returned has closed its socket, whatever
\* the outcome: the socket of every settled TCP probe of a tick is destroyed,
\* and every TCP check monitor.ps1 has made closed its TcpClient.
C21_SocketAlwaysClosed ==
    /\ \A s \in 1..MaxInFlight : \A i \in 1..Len(ticks[s].probes) :
          LET pr == ticks[s].probes[i]
          IN  (pr.io = "tcp" /\ pr.res # "pending") => pr.sock = "destroyed"
    /\ \A k \in 1..Len(psIo) : psIo[k][2] = "tcp" => psIo[k][4]

\* C22: probing never suspends for ever: every tick that has begun reaches
\* its publish step, and every iteration of monitor.ps1 that has begun its
\* checks writes status.js and reaches its sleep.
C22_EveryTickPublishes ==
    /\ \A n \in 1..MaxTicks :
          (\E s \in 1..MaxInFlight : ticks[s].begun = n) ~> (sent.tick = n)
    /\ \A w \in 0..MaxPsIter :
          (psPc = "check" /\ statusJs.written = w)
              ~> (psPc = "sleep" /\ statusJs.written = w + 1)

\* C22 witness: the second tick of a run, begun by the interval timer, has
\* published after a check of it ended by its timeout.
C22_Witness ==
    /\ nTicks = 2
    /\ sent.tick = 2 /\ sent.seq = 2
    /\ starts = <<"success">>
    /\ \A s \in 1..MaxInFlight : ticks[s] = NoTick

\* C19: at most one tick is between its start and its publish at any time.
C19_OneTickInFlight ==
    Cardinality({s \in 1..MaxInFlight : ticks[s] # NoTick}) <= 1

(***************************************************************************)
(* Claims about the renderer's listener and the state trackers.            *)
(***************************************************************************)
StatusIn(nodes, id) == nodes[FindNode(nodes, id)].status

StatusMap(nodes) == [id \in Ids(nodes) |-> StatusIn(nodes, id)]

\* C5: every snapshot presented carries, for every host, the uptime string of
\* the state tracker and the activeParentId the Topology Resolver gives for
\* the statuses of the snapshot; so a host whose primary is down and whose
\* secondary is up is presented on its secondaryParentId.
C5_SnapshotCarriesResolvedParent ==
    [][lastUpdated' # lastUpdated =>
          \A i \in 1..Len(networkData') :
              /\ networkData'[i].uptime =
                    formatDuration(Elapsed(uptimeTrackers', networkData'[i].id, dateNow))
              /\ networkData'[i].activeParentId =
                    ResolveActiveParent(networkData'[i], StatusMap(networkData'))]_vars

\* C6: the recorded since timestamp of an id changes only at an observation
\* whose status differs from the recorded one; such an observation records the
\* observed status and the time of the observation, and an observation with an
\* unchanged status (and a step that does not observe the id) leaves the
\* recorded status and timestamp untouched.  For both trackers: $stateStore of
\* monitor.ps1 and uptimeTrackers of the renderer.
C6_SinceChangesOnlyOnFlip ==
    [][/\ \A id \in DOMAIN stateStore :
            LET flips == /\ statusJs'.written # statusJs.written
                         /\ id \in Ids(psNodes)
                         /\ statuses[id] # stateStore[id].Status
            IN  /\ stateStore'[id].ChangeTime # stateStore[id].ChangeTime => flips
                /\ flips => stateStore'[id] = [Status |-> statuses[id], ChangeTime |-> psNow]
                /\ ~flips => stateStore'[id] = stateStore[id]
       /\ \A id \in DOMAIN uptimeTrackers :
            LET flips == /\ lastUpdated' # lastUpdated
                         /\ id \in Ids(networkData')
                         /\ StatusIn(networkData', id) # uptimeTrackers[id].status
            IN  /\ uptimeTrackers'[id].since # uptimeTrackers[id].since => flips
                /\ flips => uptimeTrackers'[id] =
                               [status |-> StatusIn(networkData', id), since |-> dateNow]
                /\ ~flips => uptimeTrackers'[id] = uptimeTrackers[id]]_vars

\* C6 witness: a tracked host whose status flipped twice, at two later times
\* (three entries in its history), and whose tracker holds the last flip.
C6_Witness ==
    \E id \in DOMAIN uptimeTrackers :
        /\ Len(statusHistory[id].history) >= 3
        /\ uptimeTrackers[id].since = StartOfClock + 2000
        /\ lastUpdated >= 3

\* C12: what the listener shows after a snapshot, and what monitor.ps1
\* writes, holds only hosts of the current host set (config.nodes, $nodes).
C12_OnlyCurrentHostsShown ==
    [][/\ lastUpdated' # lastUpdated => Ids(networkData') \subseteq Ids(HostLists[config'])
       /\ statusJs'.written # statusJs.written => Ids(statusJs'.nodes) \subseteq Ids(psNodes)]_vars

\* C23: the first observation of an id creates its entries with the observed
\* status and the time of the observation, records no transition (the history
\* holds the initial entry only) and reports the uptime "0s"; in the renderer
\* and in monitor.ps1, for a first status up or down.
C23_FirstObservation ==
    [][/\ lastUpdated' # lastUpdated =>
            \A i \in 1..Len(networkData') :
                LET id == networkData'[i].id
                    st == networkData'[i].status
                IN  id \notin DOMAIN uptimeTrackers =>
                        /\ uptimeTrackers'[id] = [status |-> st, since |-> dateNow]
                        /\ statusHistory'[id].lastStatus = st
                        /\ statusHistory'[id].history = <<[status |-> st, time |-> dateNow]>>
                        /\ networkData'[i].uptime = "0s"
       /\ statusJs'.written # statusJs.written =>
            \A i \in 1..Len(statusJs'.nodes) :
                LET id == statusJs'.nodes[i].id
                IN  id \notin DOMAIN stateStore =>
                        /\ stateStore'[id] = [Status |-> statuses[id], ChangeTime |-> psNow]
                        /\ statusJs'.nodes[i].uptime = "0s"]_vars

\* C23 witness: a host first observed down, one second after the renderer
\* started, next to hosts observed before; its uptime is "0s".
C23_Witness ==
    /\ lastUpdated = 2
    /\ Len(networkData) = 3
    /\ "B" \in DOMAIN uptimeTrackers
    /\ uptimeTrackers["B"] = [status |-> FALSE, since |-> StartOfClock + 1000]
    /\ uptimeTrackers["A"].since = StartOfClock
    /\ networkData[2].uptime = "0s"

\* C25: the two per-node maps of the renderer agree: an id is in both or in
\* neither, uptimeTrackers[id].status is statusHistory[id].lastStatus, and a
\* snapshot changes the entry of an id in one map exactly when it changes it
\* in the other.
C25_TrackersAgree ==
    [][/\ DOMAIN uptimeTrackers' = DOMAIN statusHistory'
       /\ \A id \in DOMAIN uptimeTrackers' :
            uptimeTrackers'[id].status = statusHistory'[id].lastStatus
       /\ \A id \in DOMAIN uptimeTrackers \cap DOMAIN statusHistory :
            (uptimeTrackers'[id] # uptimeTrackers[id])
                <=> (statusHistory'[id] # statusHistory[id])]_vars

\* C25 witness: a host that flipped once, one second after it was first
\* seen: both maps hold the new status and the time of the flip.
C25_Witness ==
    \E id \in DOMAIN uptimeTrackers \cap DOMAIN statusHistory :
        /\ uptimeTrackers[id] = [status |-> TRUE, since |-> StartOfClock + 1000]
        /\ statusHistory[id].lastStatus = TRUE
        /\ Len(statusHistory[id].history) = 2
        /\ statusHistory[id].history[1].time = StartOfClock

\* C18: a tracker entry is created or changed only when the listener handles
\* a message of the channel, and a message enters the channel only in the
\* step that settles the last outstanding probe of its tick; $stateStore of
\* monitor.ps1 changes only after the checks of all hosts have returned.
C18_StateChangesAfterProbesSettled ==
    [][/\ (uptimeTrackers' # uptimeTrackers \/ statusHistory' # statusHistory) =>
            /\ channel # <<>>
            /\ channel' = Tail(channel)
            /\ applied' = Head(channel).tick
            /\ \A s \in 1..MaxInFlight : ticks[s].begun # Head(channel).tick
       /\ Len(channel') > Len(channel) =>
            \E s \in 1..MaxInFlight :
                /\ ticks[s].begun = channel'[Len(channel')].tick
                /\ ticks'[s] = NoTick
                /\ Cardinality({j \in 1..Len(ticks[s].probes) :
                                   ticks[s].probes[j].res = "pending"}) = 1
       /\ stateStore' # stateStore =>
            /\ psPc = "process"
            /\ psIdx > Len(psNodes)
            /\ DOMAIN statuses = Ids(psNodes)]_vars

\* C18 witness: the listener has handled the snapshot of the first tick and
\* created the entries of its three hosts, while a later tick still has a
\* probe outstanding.
C18_Witness ==
    /\ lastUpdated = 1 /\ applied = 1
    /\ Len(networkData) = 3
    /\ DOMAIN uptimeTrackers = Ids(networkData)
    /\ \E s \in 1..MaxInFlight :
          /\ ticks[s] # NoTick
          /\ ticks[s].begun > applied
          /\ \E j \in 1..Len(ticks[s].probes) : ticks[s].probes[j].res = "pending"

\* C20: the listener applies the snapshots in the order their ticks began:
\* the tick handled is always a later one than the tick handled before.
C20_AppliedInObservationOrder ==
    [][applied' # applied => applied' > applied]_vars

(***************************************************************************)
(* Claims about the pure functions.                                        *)
(***************************************************************************)
\* The status the failover policy reads for a parent id.
ParentUp(st, id) == id # Null /\ id \in DOMAIN st /\ st[id]

C15_DanglingParentIsDown ==
    (fnIn # <<>> /\ fnIn.fn = "resolve" /\ fnOut # <<>>) =>
        LET e == fnIn.entry
            st == fnIn.st
            Dangling(id) == id # Null /\ id \notin DOMAIN st
        IN  /\ fnOut.activeParentId \in {e.primaryParentId, e.secondaryParentId}
            /\ Dangling(e.primaryParentId) =>
                  fnOut.activeParentId =
                      IF e.secondaryParentId # Null /\ e.secondaryParentId \in DOMAIN st
                            /\ st[e.secondaryParentId]
                      THEN e.secondaryParentId ELSE e.primaryParentId
            /\ Dangling(e.secondaryParentId) => fnOut.activeParentId = e.primaryParentId

\* C15 witness: primary X in no map, secondary B up: resolved to B.
C15_Witness ==
    /\ fnIn # <<>> /\ fnIn.fn = "resolve" /\ fnOut # <<>>
    /\ fnIn.entry.primaryParentId = "X" /\ fnIn.entry.secondaryParentId = "B"
    /\ fnIn.st["B"]
    /\ fnOut.activeParentId = "B"

\* C24: after every observation the node's history holds between 1 and
\* MAX_HISTORY_ENTRIES entries of alternating status, the last of them with
\* the status lastStatus; an entry is appended and a notification raised
\* exactly when the observed status differs from lastStatus, and neither on a
\* first observation nor on an unchanged status.
C24_HistoryBoundedAlternating ==
    (fnIn # <<>> /\ fnIn.fn = "track" /\ fnOut # <<>>) =>
        LET out == fnOut.hist["N"]
            H == out.history
            entry == [status |-> fnIn.newStatus, time |-> fnIn.now]
        IN  /\ Len(H) >= 1 /\ Len(H) <= 50
            /\ \A k \in 1..(Len(H) - 1) : H[k].status # H[k + 1].status
            /\ H[Len(H)].status = out.lastStatus
            /\ IF "N" \notin DOMAIN fnIn.hist
               THEN H = <<entry>> /\ fnOut.toast = "none"
               ELSE LET H0 == fnIn.hist["N"].history
                    IN  IF fnIn.hist["N"].lastStatus # fnIn.newStatus
                        THEN /\ H[Len(H)] = entry
                             /\ Len(H) = (IF Len(H0) < 50 THEN Len(H0) + 1 ELSE 50)
                             /\ \A k \in 1..(Len(H) - 1) :
                                   H[k] = H0[Len(H0) - (Len(H) - 1) + k]
                             /\ fnOut.toast = (IF fnIn.newStatus THEN "online" ELSE "offline")
                        ELSE H = H0 /\ fnOut.toast = "none"

\* C24 witness: a history of 50 entries and a changed status: the oldest
\* entry is dropped, 50 entries remain and a notification is raised.
C24_Witness ==
    /\ fnIn # <<>> /\ fnIn.fn = "track" /\ fnOut # <<>>
    /\ "N" \in DOMAIN fnIn.hist
    /\ Len(fnIn.hist["N"].history) = 50
    /\ Len(fnOut.hist["N"].history) = 50
    /\ fnOut.hist["N"].history[1] = fnIn.hist["N"].history[2]
    /\ fnOut.toast = "offline"

\* The uptime string of the bucketing policy: at most two units, floor.
TwoUnits(ms) ==
    LET sec == ms \div 1000
        min == sec \div 60
        hr == min \div 60
        day == hr \div 24
    IN  IF sec < 60 THEN ToString(sec) \o "s"
        ELSE IF min < 60 THEN ToString(min) \o "m " \o ToString(sec - 60 * min) \o "s"
        ELSE IF hr < 24 THEN ToString(hr) \o "h " \o ToString(min - 60 * hr) \o "m"
        ELSE ToString(day) \o "d " \o ToString(hr - 24 * day) \o "h"

\* C7: for every non-negative duration both formatters, formatDuration and
\* Get-DurationString, give the string of the bucketing policy.
C7_TwoUnitsBothFormatters ==
    (fnIn # <<>> /\ fnIn.fn = "format" /\ fnOut # <<>>) =>
        /\ fnOut.js = TwoUnits(fnIn.ms)
        /\ fnOut.ps = TwoUnits(fnIn.ms)

(***************************************************************************)
(* Claims about the undo / redo system.                                    *)
(***************************************************************************)
EditOps == {"move", "connect", "disconnect", "edit"}

\* An edit recorded by saveStateForUndo has just been made.
EditStep == undoLog'.n # undoLog.n /\ undoLog'.op \in EditOps

\* C26: after any sequence of edits, undo and redo the undo stack holds at
\* most MAX_UNDO_HISTORY states and the two stacks together hold at most
\* MAX_UNDO_HISTORY; every new edit empties the redo stack; undo on an empty
\* undo stack and redo on an empty redo stack change neither the stacks nor
\* config.nodes / config.connections.
C26_StacksBounded ==
    /\ [](/\ Len(undoStack) <= MAX_UNDO_HISTORY
          /\ Len(undoStack) + Len(redoStack) <= MAX_UNDO_HISTORY)
    /\ [][/\ EditStep => redoStack' = <<>>
          /\ (undoLog'.n # undoLog.n /\ undoLog'.op = "undo" /\ undoStack = <<>>) =>
                UNCHANGED <<undoStack, redoStack, document>>
          /\ (undoLog'.n # undoLog.n /\ undoLog'.op = "redo" /\ redoStack = <<>>) =>
                UNCHANGED <<undoStack, redoStack, document>>]_vars

\* C26 witness: an edit made with 50 saved states: the oldest saved state was
\* dropped, 50 remain and the redo stack is empty.
C26_Witness ==
    /\ undoLog = [n |-> 1, op |-> "connect"]
    /\ Len(undoStack) = MAX_UNDO_HISTORY
    /\ undoStack[1].connections = <<"c1">>
    /\ undoStack[MAX_UNDO_HISTORY].connections = <<>>
    /\ redoStack = <<>>

\* Two documents with the same JSON text: a property that is undefined
\* counts as absent.
SameDocument(a, b) == JsonClone(a) = JsonClone(b)

\* C27: undo and redo are inverse: with a non-empty undo stack, undo followed
\* by redo restores config.nodes, config.connections and both stack lengths
\* to what they were before the undo; and after an edit recorded by
\* saveStateForUndo one undo restores config.nodes and config.connections to
\* their values just before that edit (an edit made by dragging begins when
\* the mouse goes down on the node).  Documents are compared by their JSON
\* text.
C27_UndoRedoInverse ==
    [][/\ (undoLog'.n # undoLog.n /\ undoLog'.op = "undo" /\ undoStack # <<>>) =>
            LET st == RedoOp([undo |-> undoStack', redo |-> redoStack',
                              doc |-> document'])
            IN  /\ SameDocument(st.doc, document)
                /\ Len(st.undo) = Len(undoStack)
                /\ Len(st.redo) = Len(redoStack)
       /\ EditStep =>
            SameDocument(UndoOp([undo |-> undoStack', redo |-> redoStack',
                                 doc |-> document']).doc, preEdit')]_vars

(***************************************************************************)
(* Claims about the SSH connection table.                                  *)
(***************************************************************************)

\* The shell opened last for the node is still open: its stream has not
\* closed and its connection was neither ended nor closed.
LiveShell ==
    /\ sshLast # 0
    /\ sshConns[sshLast].stream = "open"
    /\ sshConns[sshLast].sock = "open"

\* C28: after any interleaving of ssh:connect, ssh:disconnect and close
\* events (a second connect for the node while the first connection is open
\* included), sshConnections holds an entry for the node exactly when the
\* shell opened last for it is still open; ssh:write and ssh:resize succeed
\* iff the node has a live shell and otherwise fail without changing state.
C28_TableTracksLiveShells ==
    /\ [](SshNode \in DOMAIN sshConnections <=> LiveShell)
    /\ [][sshReply'.op \in {"write", "resize"} /\ sshReply' # sshReply =>
            /\ sshReply'.success <=> LiveShell
            /\ UNCHANGED <<sshConnections, sshConns, sshLast>>]_vars

\* C29: in the loop of monitor.ps1 an iteration whose config.json is missing
\* or not parsable (a step from the load that does not go on to the checks)
\* changes nothing: status.js is not rewritten, $stateStore is unchanged, no
\* probe is issued, and the loop is at the load again for the next iteration.
C29_FailedLoadChangesNothing ==
    [][(psPc = "load" /\ psPc' # "check" /\ psVars' # psVars) =>
            /\ psPc' = "load"
            /\ UNCHANGED <<statusJs, stateStore, psIo, statuses, psNodes>>]_vars

\* C29 witness: a failed load in a run that also completed an iteration: two
\* seconds have passed, status.js was written once and the state store still
\* holds what that iteration stored.
C29_Witness ==
    /\ psPc = "load"
    /\ psNow = 2000
    /\ statusJs.written = 1
    /\ stateStore # EmptyMap
    /\ Len(psIo) > 0

(***************************************************************************)
(* Claims about the network scan.                                          *)
(***************************************************************************)

\* The addresses of the scanned range that answer a ping.
Answering == (scanRange.startRange..scanRange.endRange) \cap scanRange.online

\* C30: a network scan never has more than 20 pings outstanding at once; it
\* returns only after every ping of the range has settled, and returns
\* exactly one entry for each address of the range whose ping succeeded, none
\* for the others and no address twice.
C30_ScanBatchedAndExact ==
    /\ Cardinality(scanOnline) + scanOffline <= 20
    /\ scanPc = "returned" =>
          /\ scanOnline = {} /\ scanOffline = 0
          /\ scanI > scanRange.endRange
          /\ {scanResults[k] : k \in 1..Len(scanResults)} = Answering
          /\ Len(scanResults) = Cardinality(Answering)

\* C30 witness: a scan of 41 addresses, three of which answer, has returned
\* after two full batches and one last ping.
C30_Witness ==
    /\ scanPc = "returned"
    /\ scanRange.startRange = 1 /\ scanRange.endRange = 41
    /\ scanProgress = 2
    /\ Len(scanResults) = 3

====
